---- MODULE Spec2Model ----
(***************************************************************************)
(* Model of my_got_bot/brain_graph.py: the BrainGraph thought tree.        *)
(*                                                                         *)
(* Scores are floats in the source; they are modelled in tenths            *)
(* (0.5 -> 5, 1.0 -> 10, 0.2 -> 2) because the code only stores and        *)
(* compares them.  uuid4() ids are modelled by a fresh counter next_id.    *)
(* The Python dict self.nodes is the pair (nodes, order): the mapping and  *)
(* its insertion order, which .values() iterates in.                       *)
(*                                                                         *)
(* DriverSpec models the chain-of-thought loop of main.py (the same loop   *)
(* is in app_chainlit.py).  Texts are sequences of characters, with "NL"   *)
(* standing for a newline.  The thought generator and the final-answer     *)
(* detector are the environment: their results are chosen freely.          *)
(*                                                                         *)
(* ViewSpec and ExportSpec build the tree as Spec does and read it through *)
(* get_stats, get_children, visualize and export_chain_text.  MemSpec is   *)
(* memory/chat_memory.py on its own, VecSpec memory/vector_store.py with   *)
(* the ChromaDB collection as the list of its entries.  ChainlitSpec is    *)
(* the message handler of app_chainlit.py run as coroutines on one event   *)
(* loop.  ScoreSpec and WidthSpec run the tree with the scores, contents   *)
(* and widths a caller may pass.                                           *)
(***************************************************************************)
EXTENDS Integers, Sequences, FiniteSets, TLC

\* ---- bounds of the model ----
MaxNodes == 3
MaxDepthCfg == 2
MaxBranchesCfg == 2
MaxSessions == 2
MaxExchangesCfg == 2
MaxAdds == 4

\* ---- values ----
None == 0
NodeIds == 1..MaxNodes
PENDING == "pending"
ACTIVE == "active"
COMPLETED == "completed"
PRUNED == "pruned"
NodeState == {PENDING, ACTIVE, COMPLETED, PRUNED}

DefaultPruneThreshold == 2
Scores == {1, 5}
Thresholds == {None, 5, 6}
Contents == {"t"}

NoError == [type |-> "none", msg |-> "none"]
NotFoundError == [type |-> "ValueError", msg |-> "Parent node not found"]
BranchLimitError == [type |-> "ValueError", msg |-> "Parent already has max_branches children"]
DepthLimitError == [type |-> "ValueError", msg |-> "Max depth reached"]

\* ---- driver values ----
MAX_COT_ITERATIONS == 4
MaxExchanges == 20
NL == "NL"
Separator == <<NL, NL>>
NoneText == <<"None">>
Thoughts == {<<"x">>, <<"y", NL>>, <<"x", NL, NL, "y">>}
Answers == {<<"p">>, <<"q">>}
Inputs == {<<"u">>}
Handlers == {1, 2}

VARIABLES nodes, order, root_id, max_depth, max_branches, prune_threshold,
          next_id, op, arg, raised, ret,
          pc, session, iteration, brain, final_answer, calls, detected,
          outcome, history, current_cot,
          max_exchanges, added,
          collection, next_uuid, vadds,
          is_first_step, hpc, hiter, hfinal, running

tree == <<nodes, order, root_id>>
config == <<max_depth, max_branches, prune_threshold>>
tvars == <<nodes, order, root_id, max_depth, max_branches, prune_threshold,
           next_id, op, arg, raised, ret>>
mvars == <<max_exchanges, added>>
vvars == <<collection, next_uuid, vadds>>
hvars == <<hpc, hiter, hfinal, running>>
dvars == <<pc, session, iteration, brain, final_answer, calls, detected,
           outcome, history, current_cot, max_exchanges, added,
           collection, next_uuid, vadds,
           is_first_step, hpc, hiter, hfinal, running>>
vars == <<nodes, order, root_id, max_depth, max_branches, prune_threshold,
          next_id, op, arg, raised, ret,
          pc, session, iteration, brain, final_answer, calls, detected,
          outcome, history, current_cot, max_exchanges, added,
          collection, next_uuid, vadds,
          is_first_step, hpc, hiter, hfinal, running>>

\* the driver's variables before main() has handled any message
DriverIdle ==
    /\ pc = "idle"
    /\ session = 0
    /\ iteration = 0
    /\ brain = <<>>
    /\ final_answer = NoneText
    /\ calls = 0
    /\ detected = <<>>
    /\ outcome = "none"
    /\ history = <<>>
    /\ current_cot = <<>>
    /\ is_first_step = FALSE
    /\ hpc = [h \in Handlers |-> "idle"]
    /\ hiter = [h \in Handlers |-> 0]
    /\ hfinal = [h \in Handlers |-> NoneText]
    /\ running = None

\* chat_memory = ChatMemory(max_exchanges=20)
MemoryIdle ==
    /\ max_exchanges = MaxExchanges
    /\ added = <<>>

\* vector_memory = VectorMemory(persist_dir=...) on a store with no entries
VectorIdle ==
    /\ collection = <<>>
    /\ next_uuid = 1
    /\ vadds = 0

\* ---- ThoughtNode ----
\* variant that leaves a new node in the dataclass default state
ThoughtNode_DefaultState(id, content, parent_id, state, score, depth) ==
    [id |-> id, content |-> content, parent_id |-> parent_id,
     children_ids |-> <<>>, state |-> PENDING, score |-> score, depth |-> depth]

ThoughtNode(id, content, parent_id, state, score, depth) ==
    [id |-> id, content |-> content, parent_id |-> parent_id,
     children_ids |-> <<>>, state |-> state, score |-> score, depth |-> depth]

\* ---- BrainGraph.__init__ ----
Init ==
    /\ nodes = <<>>
    /\ order = <<>>
    /\ root_id = None
    /\ max_depth \in 0..MaxDepthCfg
    /\ max_branches \in 0..MaxBranchesCfg
    /\ prune_threshold = DefaultPruneThreshold
    /\ next_id = 1
    /\ op = "__init__"
    /\ arg = None
    /\ raised = NoError
    /\ ret = None
    /\ DriverIdle
    /\ MemoryIdle
    /\ VectorIdle

\* dict store self.nodes[node_id] = node for a fresh key
DictInsert(d, id, node) == [k \in DOMAIN d \cup {id} |-> IF k = id THEN node ELSE d[k]]

\* ---- create_root ----
create_root(content, score) ==
    /\ next_id <= MaxNodes
    /\ LET node_id == next_id IN
        /\ root_id' = node_id
        /\ nodes' = DictInsert(nodes, node_id,
                        ThoughtNode(node_id, content, None, COMPLETED, score, 0))
        /\ order' = Append(order, node_id)
        /\ next_id' = next_id + 1
        /\ ret' = node_id
    /\ op' = "create_root"
    /\ arg' = None
    /\ raised' = NoError
    /\ UNCHANGED config

\* ---- add_child ----
\* off-by-one variant of the branch check: admits one child too many
BranchLimitHit_OffByOne(parent) == Len(parent.children_ids) > max_branches

\* if len(parent.children_ids) >= self.max_branches
BranchLimitHit(parent) == Len(parent.children_ids) >= max_branches

\* off-by-one variant of the depth check: admits one level too many
DepthLimitHit_OffByOne(parent) == parent.depth > max_depth

\* if parent.depth >= self.max_depth
DepthLimitHit(parent) == parent.depth >= max_depth

\* variant that links the new child at the front of the list
LinkToParent_Prepend(d, parent_id, node_id) ==
    [d EXCEPT ![parent_id].children_ids = <<node_id>> \o @]

\* parent.children_ids.append(node_id)
LinkToParent(d, parent_id, node_id) ==
    [d EXCEPT ![parent_id].children_ids = Append(@, node_id)]

\* variant that takes the depth check before the branch check
add_child_DepthFirst(parent_id, content, score) ==
    /\ op' = "add_child"
    /\ arg' = parent_id
    /\ UNCHANGED config
    /\ IF parent_id \notin DOMAIN nodes
       THEN /\ raised' = NotFoundError
            /\ ret' = None
            /\ UNCHANGED <<tree, next_id>>
       ELSE LET parent == nodes[parent_id] IN
            IF DepthLimitHit(parent)
            THEN /\ raised' = DepthLimitError
                 /\ ret' = None
                 /\ UNCHANGED <<tree, next_id>>
            ELSE IF BranchLimitHit(parent)
            THEN /\ raised' = BranchLimitError
                 /\ ret' = None
                 /\ UNCHANGED <<tree, next_id>>
            ELSE /\ next_id <= MaxNodes
                 /\ LET node_id == next_id
                        child == ThoughtNode(node_id, content, parent_id, ACTIVE,
                                             score, parent.depth + 1)
                        stored == DictInsert(nodes, node_id, child)
                    IN  /\ nodes' = LinkToParent(stored, parent_id, node_id)
                        /\ order' = Append(order, node_id)
                        /\ next_id' = next_id + 1
                        /\ ret' = node_id
                 /\ raised' = NoError
                 /\ UNCHANGED root_id

\* variant that stores the new node before it validates the depth limit
add_child_StoreThenCheck(parent_id, content, score) ==
    /\ op' = "add_child"
    /\ arg' = parent_id
    /\ UNCHANGED config
    /\ IF parent_id \notin DOMAIN nodes
       THEN /\ raised' = NotFoundError
            /\ ret' = None
            /\ UNCHANGED <<tree, next_id>>
       ELSE LET parent == nodes[parent_id] IN
            IF BranchLimitHit(parent)
            THEN /\ raised' = BranchLimitError
                 /\ ret' = None
                 /\ UNCHANGED <<tree, next_id>>
            ELSE /\ next_id <= MaxNodes
                 /\ LET node_id == next_id
                        child == ThoughtNode(node_id, content, parent_id, ACTIVE,
                                             score, parent.depth + 1)
                        stored == DictInsert(nodes, node_id, child)
                    IN  /\ order' = Append(order, node_id)
                        /\ next_id' = next_id + 1
                        /\ IF DepthLimitHit(parent)
                           THEN /\ nodes' = stored
                                /\ raised' = DepthLimitError
                                /\ ret' = None
                           ELSE /\ nodes' = LinkToParent(stored, parent_id, node_id)
                                /\ raised' = NoError
                                /\ ret' = node_id
                 /\ UNCHANGED root_id

add_child(parent_id, content, score) ==
    /\ op' = "add_child"
    /\ arg' = parent_id
    /\ UNCHANGED config
    /\ IF parent_id \notin DOMAIN nodes
       THEN /\ raised' = NotFoundError
            /\ ret' = None
            /\ UNCHANGED <<tree, next_id>>
       ELSE LET parent == nodes[parent_id] IN
            IF BranchLimitHit(parent)
            THEN /\ raised' = BranchLimitError
                 /\ ret' = None
                 /\ UNCHANGED <<tree, next_id>>
            ELSE IF DepthLimitHit(parent)
            THEN /\ raised' = DepthLimitError
                 /\ ret' = None
                 /\ UNCHANGED <<tree, next_id>>
            ELSE /\ next_id <= MaxNodes
                 /\ LET node_id == next_id
                        child == ThoughtNode(node_id, content, parent_id, ACTIVE,
                                             score, parent.depth + 1)
                        stored == DictInsert(nodes, node_id, child)
                    IN  /\ nodes' = LinkToParent(stored, parent_id, node_id)
                        /\ order' = Append(order, node_id)
                        /\ next_id' = next_id + 1
                        /\ ret' = node_id
                 /\ raised' = NoError
                 /\ UNCHANGED root_id

\* ---- update_score ----
\* variant that sets a pruned node Active again when it is re-scored
update_score_Revive(node_id, new_score) ==
    /\ op' = "update_score"
    /\ arg' = node_id
    /\ raised' = NoError
    /\ ret' = None
    /\ IF node_id \in DOMAIN nodes
       THEN nodes' = [nodes EXCEPT ![node_id].score = new_score,
                                   ![node_id].state = IF @ = PRUNED THEN ACTIVE ELSE @]
       ELSE UNCHANGED nodes
    /\ UNCHANGED <<order, root_id, next_id, config>>

\* variant that treats an absent id as add_child does
update_score_RaiseAbsent(node_id, new_score) ==
    /\ op' = "update_score"
    /\ arg' = node_id
    /\ raised' = IF node_id \in DOMAIN nodes THEN NoError ELSE NotFoundError
    /\ ret' = None
    /\ IF node_id \in DOMAIN nodes
       THEN nodes' = [nodes EXCEPT ![node_id].score = new_score]
       ELSE UNCHANGED nodes
    /\ UNCHANGED <<order, root_id, next_id, config>>

update_score(node_id, new_score) ==
    /\ op' = "update_score"
    /\ arg' = node_id
    /\ raised' = NoError
    /\ ret' = None
    /\ IF node_id \in DOMAIN nodes
       THEN nodes' = [nodes EXCEPT ![node_id].score = new_score]
       ELSE UNCHANGED nodes
    /\ UNCHANGED <<order, root_id, next_id, config>>

\* ---- get_leaves ----
\* variant that forgets the exclude_pruned filter
RECURSIVE SelectNodes_KeepPruned(_, _)
SelectNodes_KeepPruned(ids, exclude_pruned) ==
    IF ids = <<>> THEN <<>>
    ELSE LET n == nodes[Head(ids)]
             rest == SelectNodes_KeepPruned(Tail(ids), exclude_pruned)
         IN IF n.children_ids = <<>>
            THEN <<n.id>> \o rest
            ELSE rest

\* variant that drops pruned nodes whatever the flag says
RECURSIVE SelectNodes_AlwaysExclude(_, _)
SelectNodes_AlwaysExclude(ids, exclude_pruned) ==
    IF ids = <<>> THEN <<>>
    ELSE LET n == nodes[Head(ids)]
             rest == SelectNodes_AlwaysExclude(Tail(ids), exclude_pruned)
         IN IF n.children_ids = <<>> /\ n.state /= PRUNED
            THEN <<n.id>> \o rest
            ELSE rest

RECURSIVE SelectNodes(_, _)
\* [node for node in self.nodes.values() if keep(node)], in dict order
SelectNodes(ids, exclude_pruned) ==
    IF ids = <<>> THEN <<>>
    ELSE LET n == nodes[Head(ids)]
             rest == SelectNodes(Tail(ids), exclude_pruned)
         IN IF n.children_ids = <<>> /\ (~exclude_pruned \/ n.state /= PRUNED)
            THEN <<n.id>> \o rest
            ELSE rest

get_leaves(exclude_pruned) == SelectNodes(order, exclude_pruned)

\* variant that keeps the lowest score instead of the highest
RECURSIVE MaxByScore_Min(_, _)
MaxByScore_Min(best, rest) ==
    IF rest = <<>> THEN best
    ELSE IF nodes[Head(rest)].score < nodes[best].score
         THEN MaxByScore_Min(Head(rest), Tail(rest))
         ELSE MaxByScore_Min(best, Tail(rest))

\* variant that lets a later leaf of equal score replace the current best
RECURSIVE MaxByScore_LastMax(_, _)
MaxByScore_LastMax(best, rest) ==
    IF rest = <<>> THEN best
    ELSE IF nodes[Head(rest)].score >= nodes[best].score
         THEN MaxByScore_LastMax(Head(rest), Tail(rest))
         ELSE MaxByScore_LastMax(best, Tail(rest))

\* ---- max(leaves, key=lambda n: n.score): the first maximal element ----
RECURSIVE MaxByScore(_, _)
MaxByScore(best, rest) ==
    IF rest = <<>> THEN best
    ELSE IF nodes[Head(rest)].score > nodes[best].score
         THEN MaxByScore(Head(rest), Tail(rest))
         ELSE MaxByScore(best, Tail(rest))

\* ---- get_best_leaf ----
BestLeaf ==
    LET leaves == get_leaves(TRUE) IN
    IF leaves = <<>> THEN None ELSE MaxByScore(Head(leaves), Tail(leaves))

get_best_leaf ==
    /\ op' = "get_best_leaf"
    /\ arg' = None
    /\ raised' = NoError
    /\ ret' = BestLeaf
    /\ UNCHANGED <<tree, next_id, config>>

\* ---- get_path_to_node ----
RECURSIVE PathWalk(_, _)
\* while current_id: path.insert(0, node); current_id = node.parent_id
PathWalk(current_id, path) ==
    IF current_id = None THEN path
    ELSE PathWalk(nodes[current_id].parent_id, <<current_id>> \o path)

PathToNode(node_id) ==
    IF node_id \notin DOMAIN nodes THEN <<>> ELSE PathWalk(node_id, <<>>)

get_path_to_node(node_id) ==
    /\ op' = "get_path_to_node"
    /\ arg' = node_id
    /\ raised' = NoError
    /\ ret' = PathToNode(node_id)
    /\ UNCHANGED <<tree, next_id, config>>

\* ---- get_best_path ----
BestPath ==
    LET best_leaf == BestLeaf IN
    IF best_leaf = None THEN <<>> ELSE PathToNode(best_leaf)

get_best_path ==
    /\ op' = "get_best_path"
    /\ arg' = None
    /\ raised' = NoError
    /\ ret' = BestPath
    /\ UNCHANGED <<tree, next_id, config>>

\* ---- get_leaves, called by the user of the tree ----
get_leaves_call(exclude_pruned) ==
    /\ op' = "get_leaves"
    /\ arg' = exclude_pruned
    /\ raised' = NoError
    /\ ret' = get_leaves(exclude_pruned)
    /\ UNCHANGED <<tree, next_id, config>>

\* ---- prune_low_scoring ----
\* variant of the comparison that also prunes a score equal to the threshold
PruneNode_Inclusive(node, threshold) ==
    IF node.score <= threshold /\ node.state /= PRUNED
    THEN [node EXCEPT !.state = PRUNED]
    ELSE node

\* variant that flips the state of every low-scoring node on each run
PruneNode_Toggle(node, threshold) ==
    IF node.score < threshold
    THEN [node EXCEPT !.state = IF @ = PRUNED THEN ACTIVE ELSE PRUNED]
    ELSE node

\* if node.score < threshold and node.state != NodeState.PRUNED: node.state = PRUNED
\* variant that also detaches a pruned node from its parent
PruneNode_Detach(node, threshold) ==
    IF node.score < threshold /\ node.state /= PRUNED
    THEN [node EXCEPT !.state = PRUNED, !.parent_id = None]
    ELSE node

PruneNode(node, threshold) ==
    IF node.score < threshold /\ node.state /= PRUNED
    THEN [node EXCEPT !.state = PRUNED]
    ELSE node

\* if threshold is None: threshold = self.prune_threshold
EffectiveThreshold(threshold) ==
    IF threshold = None THEN prune_threshold ELSE threshold

\* variant that deletes the low-scoring nodes from the mapping
PruneAll_Delete(d, t) ==
    [k \in {n \in DOMAIN d : d[n].score >= t} |-> d[k]]

\* for node in self.nodes.values(): ...
PruneAll(d, t) == [k \in DOMAIN d |-> PruneNode(d[k], t)]

prune_low_scoring(threshold) ==
    /\ op' = "prune_low_scoring"
    /\ arg' = threshold
    /\ raised' = NoError
    /\ ret' = None
    /\ nodes' = PruneAll(nodes, EffectiveThreshold(threshold))
    /\ UNCHANGED <<order, root_id, next_id, config>>

\* ---- the callers' steps ----
CreateRoot ==
    /\ \E c \in Contents, s \in Scores : create_root(c, s)
    /\ UNCHANGED dvars
AddChild ==
    /\ \E p \in NodeIds, c \in Contents, s \in Scores : add_child(p, c, s)
    /\ UNCHANGED dvars
UpdateScore ==
    /\ \E n \in NodeIds, s \in Scores : update_score(n, s)
    /\ UNCHANGED dvars
PruneLowScoring ==
    /\ \E t \in Thresholds : prune_low_scoring(t)
    /\ UNCHANGED dvars
GetBestLeaf == get_best_leaf /\ UNCHANGED dvars
GetPathToNode ==
    /\ \E n \in NodeIds : get_path_to_node(n)
    /\ UNCHANGED dvars
GetBestPath == get_best_path /\ UNCHANGED dvars
GetLeaves ==
    /\ \E e \in BOOLEAN : get_leaves_call(e)
    /\ UNCHANGED dvars

Next ==
    \/ CreateRoot
    \/ AddChild
    \/ UpdateScore
    \/ PruneLowScoring
    \/ GetBestLeaf
    \/ GetPathToNode
    \/ GetBestPath
    \/ GetLeaves

Spec == Init /\ [][Next]_vars

\* ======================================================================
\* The chain-of-thought driver (main.py)
\* ======================================================================

\* ---- BrainText: the linear chain of thoughts ----
brain_clear == <<>>

brain_add_step(chain, text) == Append(chain, text)

RECURSIVE JoinSteps(_)
\* the steps joined with a blank line
JoinSteps(chain) ==
    IF chain = <<>> THEN <<>>
    ELSE IF Len(chain) = 1 THEN chain[1]
    ELSE chain[1] \o Separator \o JoinSteps(Tail(chain))

brain_get_chain(chain) == JoinSteps(chain)

\* ---- str.split("\n\n")[-1]: what follows the last separator found by a
\* left-to-right scan for non-overlapping occurrences ----
RECURSIVE LastPiece(_)
LastPiece(text) ==
    LET hits == {i \in 1..(Len(text) - 1) : text[i] = NL /\ text[i + 1] = NL} IN
    IF hits = {} THEN text
    ELSE LET first == CHOOSE i \in hits : \A j \in hits : i <= j
         IN LastPiece(SubSeq(text, first + 2, Len(text)))

\* ---- ChatMemory.add_exchange ----
\* variant that drops the newest exchange when the limit is passed
add_exchange_DropNewest(h, user_message, bot_response) ==
    LET appended == Append(h, <<user_message, bot_response>>) IN
    IF Len(appended) > max_exchanges THEN h ELSE appended

\* self.history.append(...); if len(self.history) > self.max_exchanges: pop(0)
add_exchange(h, user_message, bot_response) ==
    LET appended == Append(h, <<user_message, bot_response>>) IN
    IF Len(appended) > max_exchanges THEN Tail(appended) ELSE appended

\* a call of add_exchange on the memory; added is the log of the exchanges
\* passed to add_exchange since the memory was created or last cleared
ChatMemory_add_exchange(user_message, bot_response) ==
    /\ history' = add_exchange(history, user_message, bot_response)
    /\ added' = Append(added, <<user_message, bot_response>>)
    /\ UNCHANGED max_exchanges

\* ---- ChatMemory.clear ----
ChatMemory_clear ==
    /\ history' = <<>>
    /\ added' = <<>>
    /\ UNCHANGED max_exchanges

\* ---- VectorMemory (memory/vector_store.py) ----
\* The ChromaDB collection is the list of its entries in the order they were
\* added; collection.count() is its length.  uuid4() ids are modelled by the
\* fresh counter next_uuid, which also serves as the clock that
\* datetime.now() reads.  The embedding is kept as the text it was computed
\* from.
DictUpdate(d, u) ==
    [k \in DOMAIN d \cup DOMAIN u |-> IF k \in DOMAIN u THEN u[k] ELSE d[k]]

EmptyDict == [k \in {} |-> None]

\* metadata: Optional[Dict] = None -- the argument when the caller gives none
NoMetadata == [none |-> TRUE]

CombinedText(user_message, bot_response) ==
    <<"User: ">> \o user_message \o <<NL, "Assistant: ">> \o bot_response

Entry(exchange_id, user_message, bot_response, metadata) ==
    LET combined_text == CombinedText(user_message, bot_response)
        own == [timestamp |-> next_uuid,
                user_message |-> user_message,
                bot_response |-> bot_response,
                user_length |-> Len(user_message),
                bot_length |-> Len(bot_response)]
    IN [id |-> exchange_id,
        embedding |-> [of |-> combined_text],
        document |-> combined_text,
        metadata |-> DictUpdate(IF metadata = NoMetadata THEN EmptyDict ELSE metadata, own)]

\* variant that does not store an exchange with an empty user message
VectorMemory_add_exchange_SkipEmpty(user_message, bot_response, metadata) ==
    /\ next_uuid' = next_uuid + 1
    /\ collection' = IF user_message = <<>> THEN collection
                     ELSE Append(collection,
                              Entry(next_uuid, user_message, bot_response, metadata))

\* exchange_id = str(uuid.uuid4()); self.collection.add(...)
VectorMemory_add_exchange(user_message, bot_response, metadata) ==
    /\ next_uuid' = next_uuid + 1
    /\ collection' = Append(collection,
                         Entry(next_uuid, user_message, bot_response, metadata))

\* delete_collection and create_collection under the same name
VectorMemory_clear_all == collection' = <<>>

\* the dict get_stats returns
VectorStats ==
    [total_exchanges |-> Len(collection),
     collection_name |-> "conversations",
     embedding_dimension |-> 384,
     model |-> "all-MiniLM-L6-v2"]

\* ---- main(): one pass of the while loop up to the for loop ----
\* variant that starts a session without brain.clear()
StartSession_NoClear ==
    /\ pc = "idle"
    /\ session < MaxSessions
    /\ session' = session + 1
    /\ brain' = brain
    /\ final_answer' = NoneText
    /\ iteration' = 1
    /\ calls' = 0
    /\ detected' = <<>>
    /\ outcome' = "Running"
    /\ pc' = "think"
    /\ UNCHANGED <<history, current_cot, is_first_step, tvars, mvars, vvars, hvars>>

StartSession ==
    /\ pc = "idle"
    /\ session < MaxSessions
    /\ session' = session + 1
    /\ brain' = brain_clear
    /\ final_answer' = NoneText
    /\ iteration' = 1
    /\ calls' = 0
    /\ detected' = <<>>
    /\ outcome' = "Running"
    /\ pc' = "think"
    /\ UNCHANGED <<history, current_cot, is_first_step, tvars, mvars, vvars, hvars>>

\* ---- response = think_one_step(...); brain.add_step(response) ----
\* variant that appends the new thought before rendering the chain for it
Think_RenderAfterAppend ==
    /\ pc = "think"
    /\ \E response \in Thoughts : brain' = brain_add_step(brain, response)
    /\ current_cot' = brain_get_chain(brain')
    /\ is_first_step' = (iteration = 1)
    /\ calls' = calls + 1
    /\ pc' = "speak"
    /\ UNCHANGED <<session, iteration, final_answer, detected, outcome, history,
                   tvars, mvars, vvars, hvars>>

\* current_cot is the rendering handed to think_one_step
Think ==
    /\ pc = "think"
    /\ current_cot' = brain_get_chain(brain)
    /\ is_first_step' = (iteration = 1)
    /\ \E response \in Thoughts : brain' = brain_add_step(brain, response)
    /\ calls' = calls + 1
    /\ pc' = "speak"
    /\ UNCHANGED <<session, iteration, final_answer, detected, outcome, history,
                   tvars, mvars, vvars, hvars>>

\* ---- think_one_step raises (missing prompt file, malformed reply) ----
ThinkRaises ==
    /\ pc = "think"
    /\ current_cot' = brain_get_chain(brain)
    /\ is_first_step' = (iteration = 1)
    /\ calls' = calls + 1
    /\ outcome' = "Exception"
    /\ pc' = "crashed"
    /\ UNCHANGED <<session, iteration, brain, final_answer, detected, history,
                   tvars, mvars, vvars, hvars>>

\* variant of the loop bound that allows one more iteration
RangeHasNext_OneMore(i) == i + 1 < MAX_COT_ITERATIONS + 2

\* for iteration in range(1, MAX_COT_ITERATIONS + 1): is there a next value
RangeHasNext(i) == i + 1 < MAX_COT_ITERATIONS + 1

\* variant of the loop body that records the answer but does not break
AfterSpeak_NoBreak(answer, is_final) ==
    /\ final_answer' = IF is_final THEN answer ELSE final_answer
    /\ IF RangeHasNext(iteration)
       THEN iteration' = iteration + 1 /\ pc' = "think"
       ELSE iteration' = iteration /\ pc' = "after_loop"

\* if is_final: final_answer = answer; break  -- else the for loop goes on
AfterSpeak(answer, is_final) ==
    IF is_final
    THEN /\ final_answer' = answer
         /\ iteration' = iteration
         /\ pc' = "after_loop"
    ELSE /\ final_answer' = final_answer
         /\ IF RangeHasNext(iteration)
            THEN iteration' = iteration + 1 /\ pc' = "think"
            ELSE iteration' = iteration /\ pc' = "after_loop"

\* ---- answer, is_final = speak(response) ----
\* detected is the record of what the detector returned, iteration by
\* iteration; the answer that comes with a non-final verdict is not kept.
Speak ==
    /\ pc = "speak"
    /\ \E answer \in Answers, is_final \in BOOLEAN :
          /\ detected' = Append(detected,
                 [answer |-> IF is_final THEN answer ELSE NoneText,
                  is_final |-> is_final])
          /\ AfterSpeak(answer, is_final)
    /\ UNCHANGED <<session, brain, calls, outcome, history, current_cot,
                   is_first_step, tvars, mvars, vvars, hvars>>

\* ---- if final_answer is None: final_answer = brain.get_chain().split("\n\n")[-1] ----
AfterLoop ==
    /\ pc = "after_loop"
    /\ IF final_answer = NoneText
       THEN /\ final_answer' = LastPiece(brain_get_chain(brain))
            /\ outcome' = "Exhausted"
       ELSE /\ final_answer' = final_answer
            /\ outcome' = "Finalized"
    /\ pc' = "store"
    /\ UNCHANGED <<session, iteration, brain, calls, detected, history,
                   current_cot, is_first_step, tvars, mvars, vvars, hvars>>

\* ---- chat_memory.add_exchange(user_message, final_answer);
\*      vector_memory.add_exchange(user_text, final_answer) ----
StoreExchange ==
    /\ pc = "store"
    /\ \E user_message \in Inputs :
          /\ ChatMemory_add_exchange(user_message, final_answer)
          /\ VectorMemory_add_exchange(user_message, final_answer, NoMetadata)
    /\ vadds' = vadds + 1
    /\ pc' = "idle"
    /\ UNCHANGED <<session, iteration, brain, final_answer, calls, detected,
                   outcome, current_cot, is_first_step, tvars, hvars>>

\* no BrainGraph is built by main.py: the tree stays as constructed
DriverInit ==
    /\ nodes = <<>>
    /\ order = <<>>
    /\ root_id = None
    /\ max_depth = 0
    /\ max_branches = 0
    /\ prune_threshold = DefaultPruneThreshold
    /\ next_id = 1
    /\ op = "__init__"
    /\ arg = None
    /\ raised = NoError
    /\ ret = None
    /\ DriverIdle
    /\ MemoryIdle
    /\ VectorIdle

DriverNext ==
    \/ StartSession
    \/ Think
    \/ ThinkRaises
    \/ Speak
    \/ AfterLoop
    \/ StoreExchange

DriverSpec == DriverInit /\ [][DriverNext]_vars

\* a call to the generator returns or raises, a call to the detector
\* returns, and the interpreter then runs the rest of the loop body
DriverFairSpec ==
    DriverSpec /\ WF_vars(Think \/ ThinkRaises) /\ WF_vars(Speak)

\* ======================================================================
\* Read-only views of the tree (brain_graph.py): statistics, children,
\* renderings.  ViewSpec builds the tree as Spec does and reads it through
\* these methods.
\* ======================================================================

\* ---- get_stats ----
\* sum(1 for n in self.nodes.values() if n.state == state)
StatesCount == [state \in NodeState |->
                   Cardinality({n \in DOMAIN nodes : nodes[n].state = state})]

RECURSIVE SumScores(_)
\* sum(scores), over the dict in insertion order
SumScores(ids) ==
    IF ids = <<>> THEN 0 ELSE nodes[Head(ids)].score + SumScores(Tail(ids))

\* max(n.depth for ...), min(scores), max(scores)
MaxOf(S) == CHOOSE x \in S : \A y \in S : y <= x
MinOf(S) == CHOOSE x \in S : \A y \in S : x <= y

\* variant that counts the leaves with the default filter
LeafCount_ExcludePruned == Len(get_leaves(TRUE))

\* len(self.get_leaves(exclude_pruned=False))
LeafCount == Len(get_leaves(FALSE))

\* avg_score is the quotient of the pair <<sum(scores), len(scores)>>
Stats ==
    IF DOMAIN nodes = {}
    THEN [total_nodes |-> 0]
    ELSE [total_nodes |-> Cardinality(DOMAIN nodes),
          max_depth_reached |-> MaxOf({nodes[n].depth : n \in DOMAIN nodes}),
          leaf_nodes |-> LeafCount,
          states |-> StatesCount,
          avg_score |-> <<SumScores(order), Len(order)>>,
          min_score |-> MinOf({nodes[n].score : n \in DOMAIN nodes}),
          max_score |-> MaxOf({nodes[n].score : n \in DOMAIN nodes})]

get_stats ==
    /\ op' = "get_stats"
    /\ arg' = None
    /\ raised' = NoError
    /\ ret' = Stats
    /\ UNCHANGED <<tree, next_id, config>>

GetStats == get_stats /\ UNCHANGED dvars

\* ---- export_chain_text ----
\* The returned string is modelled as the list of its lines, which the code
\* joins with "\n".  A line is its fixed text (label), and the step number,
\* content and score the code formats into it ("" and None where the line
\* has none).
Line(label, step, content, score) ==
    [label |-> label, step |-> step, content |-> content, score |-> score]
EmptyTreeText == <<Line("Empty tree", None, "", None)>>
ChainHeader == Line("=== REASONING CHAIN ===", None, "", None)

RECURSIVE ChainLines(_, _)
\* for i, node in enumerate(path): the lines of path[i], path[i+1], ...
ChainLines(path, i) ==
    IF i > Len(path) - 1 THEN <<>>
    ELSE LET node == nodes[path[i + 1]] IN
         (IF i = 0
          THEN <<Line("Initial", None, node.content, None)>>
          ELSE <<Line("Step", i, node.content, None),
                 Line("score", None, "", node.score)>>)
         \o ChainLines(path, i + 1)

ExportChainText(node_id) ==
    IF node_id = None /\ BestLeaf = None
    THEN EmptyTreeText
    ELSE LET target == IF node_id = None THEN BestLeaf ELSE node_id
             path == PathToNode(target)
         IN <<ChainHeader>> \o ChainLines(path, 0)

export_chain_text(node_id) ==
    /\ op' = "export_chain_text"
    /\ arg' = node_id
    /\ raised' = NoError
    /\ ret' = ExportChainText(node_id)
    /\ UNCHANGED <<tree, next_id, config>>

ExportChain ==
    /\ \E n \in NodeIds \cup {None} : export_chain_text(n)
    /\ UNCHANGED dvars

\* ---- get_children ----
RECURSIVE SortByScore(_)
SortByScore(ids) ==
    IF ids = <<>> THEN <<>>
    ELSE LET i == CHOOSE i \in DOMAIN ids :
                      \A j \in DOMAIN ids :
                          /\ nodes[ids[j]].score <= nodes[ids[i]].score
                          /\ nodes[ids[j]].score = nodes[ids[i]].score => i <= j
         IN <<ids[i]>> \o SortByScore(SubSeq(ids, 1, i - 1) \o SubSeq(ids, i + 1, Len(ids)))

\* variant that returns the children best score first
ChildrenOf_BestFirst(node_id) ==
    IF node_id \notin DOMAIN nodes THEN <<>>
    ELSE SortByScore(nodes[node_id].children_ids)

\* [self.nodes[cid] for cid in self.nodes[node_id].children_ids]
ChildrenOf(node_id) ==
    IF node_id \notin DOMAIN nodes THEN <<>>
    ELSE nodes[node_id].children_ids

get_children(node_id) ==
    /\ op' = "get_children"
    /\ arg' = node_id
    /\ raised' = NoError
    /\ ret' = ChildrenOf(node_id)
    /\ UNCHANGED <<tree, next_id, config>>

GetChildren ==
    /\ \E n \in NodeIds : get_children(n)
    /\ UNCHANGED dvars

\* ---- visualize ----
DefaultMaxWidth == 80
\* the content of a node as a string of characters
ContentText(content) ==
    IF content = "abcdefgh"
    THEN <<"a", "b", "c", "d", "e", "f", "g", "h">>
    ELSE <<content>>

\* text[:k] of Python: the first k characters, counted from the end when k
\* is negative
SliceTo(text, k) ==
    IF k >= 0
    THEN SubSeq(text, 1, IF k < Len(text) THEN k ELSE Len(text))
    ELSE SubSeq(text, 1, IF Len(text) + k > 0 THEN Len(text) + k ELSE 0)

_truncate(text, width) ==
    IF Len(text) <= width THEN text
    ELSE SliceTo(text, width - 3) \o <<".", ".", ".">>

\* stars: int(node.score * 5), with the score in tenths
Stars(score) == score \div 2

\* A prefix is the list of its four-character pieces ("    " or "|   "), so
\* len(prefix) is 4 * Len(prefix).  A rendered line keeps the parts the code
\* formats into it; node names the node it was rendered from.
RECURSIVE _render_node(_, _, _, _)
RECURSIVE RenderChildren(_, _, _, _)
RenderChildren(children_ids, i, new_prefix, max_width) ==
    IF i > Len(children_ids) - 1 THEN <<>>
    ELSE _render_node(children_ids[i + 1], new_prefix,
                      i = Len(children_ids) - 1, max_width)
         \o RenderChildren(children_ids, i + 1, new_prefix, max_width)

_render_node(node_id, prefix, is_last, max_width) ==
    LET node == nodes[node_id]
        connector == IF is_last THEN "+-- " ELSE "|-- "
        content_short == _truncate(ContentText(node.content),
                                   max_width - 4 * Len(prefix) - 20)
        node_line == [kind |-> "node", node |-> node_id, prefix |-> prefix,
                      connector |-> connector, state |-> node.state,
                      content |-> content_short, stars |-> Stars(node.score),
                      score |-> node.score]
        new_prefix == Append(prefix, IF is_last THEN "    " ELSE "|   ")
    IN <<node_line>> \o RenderChildren(node.children_ids, 0, new_prefix, max_width)

Visualization(max_width) ==
    IF root_id = None
    THEN <<[kind |-> "Empty tree"]>>
    ELSE LET header == [kind |-> "header", depth |-> max_depth,
                        branches |-> max_branches]
             separator == [kind |-> "separator"]
             stats == Stats
             footer == [kind |-> "footer", total_nodes |-> stats.total_nodes,
                        leaf_nodes |-> stats.leaf_nodes,
                        avg_score |-> stats.avg_score]
         IN <<separator, header, separator>>
            \o _render_node(root_id, <<>>, TRUE, max_width)
            \o <<separator, footer, separator>>

visualize(max_width) ==
    /\ op' = "visualize"
    /\ arg' = max_width
    /\ raised' = NoError
    /\ ret' = Visualization(max_width)
    /\ UNCHANGED <<tree, next_id, config>>

Visualize == visualize(DefaultMaxWidth) /\ UNCHANGED dvars

ViewNext ==
    \/ CreateRoot
    \/ AddChild
    \/ UpdateScore
    \/ PruneLowScoring
    \/ GetStats
    \/ GetChildren
    \/ Visualize

ViewSpec == Init /\ [][ViewNext]_vars

\* the tree built as in Spec and exported as text
ExportNext ==
    \/ CreateRoot
    \/ AddChild
    \/ UpdateScore
    \/ PruneLowScoring
    \/ ExportChain

ExportSpec == Init /\ [][ExportNext]_vars

\* ======================================================================
\* ChatMemory on its own (memory/chat_memory.py): a memory built with any
\* limit from 0 to MaxExchangesCfg, then add_exchange and clear in any order.
\* ======================================================================
MemUsers == {<<"u">>, <<"v">>}

MemInit ==
    /\ nodes = <<>>
    /\ order = <<>>
    /\ root_id = None
    /\ max_depth = 0
    /\ max_branches = 0
    /\ prune_threshold = DefaultPruneThreshold
    /\ next_id = 1
    /\ op = "__init__"
    /\ arg = None
    /\ raised = NoError
    /\ ret = None
    /\ DriverIdle
    /\ max_exchanges \in 0..MaxExchangesCfg
    /\ added = <<>>
    /\ VectorIdle

cvars == <<pc, session, iteration, brain, final_answer, calls, detected,
           outcome, current_cot, is_first_step, hpc, hiter, hfinal, running>>

AddExchange ==
    /\ Len(added) < MaxAdds
    /\ \E user_message \in MemUsers, bot_response \in Answers :
          ChatMemory_add_exchange(user_message, bot_response)
    /\ UNCHANGED <<cvars, tvars, vvars>>

ClearMemory ==
    /\ ChatMemory_clear
    /\ UNCHANGED <<cvars, tvars, vvars>>

MemNext ==
    \/ AddExchange
    \/ ClearMemory

MemSpec == MemInit /\ [][MemNext]_vars

\* ======================================================================
\* VectorMemory on its own (memory/vector_store.py): add_exchange, clear_all
\* and get_stats in any order on a store that starts empty.  vadds counts
\* the add_exchange calls since the store was empty or last cleared.
\* ======================================================================
VecMessages == {<<>>, <<"u">>}
VecResponses == {<<>>, <<"p">>}
CallerMetadata == {NoMetadata, [topic |-> "testing", rating |-> 5]}

VAddExchange ==
    /\ next_uuid <= MaxAdds
    /\ \E user_message \in VecMessages, bot_response \in VecResponses,
          metadata \in CallerMetadata :
          VectorMemory_add_exchange(user_message, bot_response, metadata)
    /\ vadds' = vadds + 1
    /\ op' = "VectorMemory.add_exchange"
    /\ arg' = None
    /\ raised' = NoError
    /\ ret' = next_uuid
    /\ UNCHANGED <<tree, next_id, config, cvars, history, mvars>>

VClearAll ==
    /\ VectorMemory_clear_all
    /\ vadds' = 0
    /\ op' = "VectorMemory.clear_all"
    /\ arg' = None
    /\ raised' = NoError
    /\ ret' = None
    /\ UNCHANGED <<tree, next_id, config, cvars, history, mvars, next_uuid>>

VGetStats ==
    /\ op' = "VectorMemory.get_stats"
    /\ arg' = None
    /\ raised' = NoError
    /\ ret' = VectorStats
    /\ UNCHANGED <<tree, next_id, config, cvars, history, mvars, vvars>>

VecNext ==
    \/ VAddExchange
    \/ VClearAll
    \/ VGetStats

VecSpec == DriverInit /\ [][VecNext]_vars

\* ======================================================================
\* VectorMemory.search_similar.  The encoder and the index are the
\* environment: a query gives every stored entry a distance (squared L2,
\* never negative), chosen freely, and collection.query returns the
\* n_results nearest entries, nearest first.  A similarity is the fraction
\* <<numerator, denominator>>; min_similarity is in tenths.
\* ======================================================================
Distances == {0, 1, 4}
NResults == {2, 5}
DefaultMinSimilarity == 0
MinSimilarities == {DefaultMinSimilarity, 3, 5}

RECURSIVE NearestFirst(_, _)
\* positions of the collection, by ascending distance
NearestFirst(positions, dist) ==
    IF positions = {} THEN <<>>
    ELSE LET p == CHOOSE p \in positions :
                      \A q \in positions :
                          dist[p] < dist[q] \/ (dist[p] = dist[q] /\ p <= q)
         IN <<p>> \o NearestFirst(positions \ {p}, dist)

\* self.collection.query(query_embeddings=[...], n_results=n)
CollectionQuery(dist, n) ==
    LET ranked == NearestFirst(DOMAIN collection, dist)
    IN SubSeq(ranked, 1, IF n < Len(ranked) THEN n ELSE Len(ranked))

\* variant that takes the distance for a cosine distance
SimilarityOf_OneMinus(distance) == <<1 - distance, 1>>

\* similarity = 1 / (1 + distance)
SimilarityOf(distance) == <<1, 1 + distance>>

\* similarity >= min_similarity
AtLeast(similarity, min_similarity) ==
    similarity[1] * 10 >= min_similarity * similarity[2]

RECURSIVE FormatResults(_, _, _)
FormatResults(hits, dist, min_similarity) ==
    IF hits = <<>> THEN <<>>
    ELSE LET metadata == collection[Head(hits)].metadata
             similarity == SimilarityOf(dist[Head(hits)])
             rest == FormatResults(Tail(hits), dist, min_similarity)
         IN IF AtLeast(similarity, min_similarity)
            THEN <<[user_message |-> metadata.user_message,
                    bot_response |-> metadata.bot_response,
                    similarity |-> similarity,
                    timestamp |-> metadata.timestamp,
                    metadata |-> metadata]>> \o rest
            ELSE rest

SearchSimilar(dist, n_results, min_similarity) ==
    IF Len(collection) = 0 THEN <<>>
    ELSE FormatResults(
             CollectionQuery(dist,
                 IF n_results < Len(collection) THEN n_results ELSE Len(collection)),
             dist, min_similarity)

search_similar(n_results, min_similarity) ==
    /\ \E dist \in [DOMAIN collection -> Distances] :
          ret' = SearchSimilar(dist, n_results, min_similarity)
    /\ op' = "VectorMemory.search_similar"
    /\ arg' = [n_results |-> n_results, min_similarity |-> min_similarity]
    /\ raised' = NoError

VSearchSimilar ==
    /\ \E n_results \in NResults, min_similarity \in MinSimilarities :
          search_similar(n_results, min_similarity)
    /\ UNCHANGED <<tree, next_id, config, cvars, history, mvars, vvars>>

\* add_exchange with one message and one response
SAddExchange ==
    /\ next_uuid <= MaxAdds
    /\ VectorMemory_add_exchange(<<"u">>, <<"p">>, NoMetadata)
    /\ vadds' = vadds + 1
    /\ op' = "VectorMemory.add_exchange"
    /\ arg' = None
    /\ raised' = NoError
    /\ ret' = next_uuid
    /\ UNCHANGED <<tree, next_id, config, cvars, history, mvars>>

SearchNext ==
    \/ SAddExchange
    \/ VClearAll
    \/ VSearchSimilar

SearchSpec == DriverInit /\ [][SearchNext]_vars

\* ======================================================================
\* app_chainlit.py: the message handler.  Every incoming message starts a
\* coroutine of main(message) on the one asyncio event loop; the coroutines
\* share the module-level brain and chat_memory.  A coroutine keeps the
\* loop until it reaches an await; running is the coroutine that holds the
\* loop, None when the loop is free.  hpc, hiter and hfinal are the
\* position, the loop variable and the local final_answer of each handler.
\* ======================================================================
\* variant in which the generator call is awaited as well
Yields_AtThink(p) == p \in {"send", "think"}

\* the positions at which the handler awaits: only the final send
Yields(p) == p = "send"

\* the handler goes on to position p; reaching an await frees the loop
Goto(h, p) ==
    /\ hpc' = [hpc EXCEPT ![h] = p]
    /\ running' = IF Yields(p) THEN None ELSE h

\* the loop runs h: h holds it, or it is free and h waits at an await
CanRun(h) == running = h \/ (running = None /\ Yields(hpc[h]))

hframe == <<pc, iteration, final_answer, calls, detected, outcome, current_cot,
            is_first_step, max_exchanges, tvars, vvars>>

\* ---- a message arrives: brain.clear(); final_answer = None ----
HStart(h) ==
    /\ hpc[h] = "idle"
    /\ running = None
    /\ session < MaxSessions
    /\ session' = session + 1
    /\ brain' = brain_clear
    /\ hfinal' = [hfinal EXCEPT ![h] = NoneText]
    /\ hiter' = [hiter EXCEPT ![h] = 1]
    /\ Goto(h, "think")
    /\ UNCHANGED <<history, added, hframe>>

\* ---- response = think_one_step(...); brain.add_step(response) ----
HThink(h) ==
    /\ hpc[h] = "think"
    /\ CanRun(h)
    /\ \E response \in Thoughts : brain' = brain_add_step(brain, response)
    /\ Goto(h, "speak")
    /\ UNCHANGED <<session, hiter, hfinal, history, added, hframe>>

\* ---- think_one_step raises: the exception ends the coroutine ----
HThinkRaises(h) ==
    /\ hpc[h] = "think"
    /\ CanRun(h)
    /\ hpc' = [hpc EXCEPT ![h] = "idle"]
    /\ running' = None
    /\ UNCHANGED <<session, brain, hiter, hfinal, history, added, hframe>>

\* ---- answer, is_final = extract_final_answer(response) ----
HSpeak(h) ==
    /\ hpc[h] = "speak"
    /\ CanRun(h)
    /\ \E answer \in Answers, is_final \in BOOLEAN :
          IF is_final
          THEN /\ hfinal' = [hfinal EXCEPT ![h] = answer]
               /\ hiter' = hiter
               /\ Goto(h, "after_loop")
          ELSE /\ hfinal' = hfinal
               /\ IF RangeHasNext(hiter[h])
                  THEN hiter' = [hiter EXCEPT ![h] = hiter[h] + 1] /\ Goto(h, "think")
                  ELSE hiter' = hiter /\ Goto(h, "after_loop")
    /\ UNCHANGED <<session, brain, history, added, hframe>>

\* ---- if final_answer is None: final_answer = brain.get_chain().split("\n\n")[-1] ----
HAfterLoop(h) ==
    /\ hpc[h] = "after_loop"
    /\ CanRun(h)
    /\ hfinal' = [hfinal EXCEPT ![h] =
                     IF hfinal[h] = NoneText
                     THEN LastPiece(brain_get_chain(brain))
                     ELSE hfinal[h]]
    /\ Goto(h, "store")
    /\ UNCHANGED <<session, brain, hiter, history, added, hframe>>

\* ---- chat_memory.add_exchange(user_input, final_answer) ----
HStore(h) ==
    /\ hpc[h] = "store"
    /\ CanRun(h)
    /\ \E user_input \in Inputs :
          ChatMemory_add_exchange(user_input, hfinal[h])
    /\ Goto(h, "send")
    /\ UNCHANGED <<session, brain, hiter, hfinal, pc, iteration, final_answer,
                   calls, detected, outcome, current_cot, is_first_step,
                   tvars, vvars>>

\* ---- await cl.Message(content=final_answer).send() completes ----
HSend(h) ==
    /\ hpc[h] = "send"
    /\ CanRun(h)
    /\ hpc' = [hpc EXCEPT ![h] = "idle"]
    /\ running' = None
    /\ UNCHANGED <<session, brain, hiter, hfinal, history, added, hframe>>

ChainlitNext ==
    \E h \in Handlers :
        \/ HStart(h)
        \/ HThink(h)
        \/ HThinkRaises(h)
        \/ HSpeak(h)
        \/ HAfterLoop(h)
        \/ HStore(h)
        \/ HSend(h)

ChainlitSpec == DriverInit /\ [][ChainlitNext]_vars

\* ======================================================================
\* The tree with the scores its callers may pass.  score is a plain float
\* parameter: -0.2 (-2), 0.5 (5) and 1.5 (15) stand for a value below the
\* interval, one inside it and one above it.
\* ======================================================================
CallerScores == {-2, 5, 15}

ScoreCreateRoot ==
    /\ \E c \in Contents, s \in CallerScores : create_root(c, s)
    /\ UNCHANGED dvars

ScoreAddChild ==
    /\ \E p \in NodeIds, c \in Contents, s \in CallerScores : add_child(p, c, s)
    /\ UNCHANGED dvars

ScoreUpdateScore ==
    /\ \E n \in NodeIds, s \in CallerScores : update_score(n, s)
    /\ UNCHANGED dvars

ScoreNext ==
    \/ ScoreCreateRoot
    \/ ScoreAddChild
    \/ ScoreUpdateScore

ScoreSpec == Init /\ [][ScoreNext]_vars

\* ======================================================================
\* visualize with the widths and contents a caller may pass: a content of
\* one character and one of eight, and widths that leave a node -6 to 56
\* characters (max_width - len(prefix) - 20, the prefix being four
\* characters per level).
\* ======================================================================
WideContents == {"t", "abcdefgh"}
MaxWidths == {18, 21, 25, 28, DefaultMaxWidth}

WidthCreateRoot ==
    /\ \E c \in WideContents : create_root(c, 5)
    /\ UNCHANGED dvars

WidthAddChild ==
    /\ \E p \in NodeIds, c \in WideContents : add_child(p, c, 5)
    /\ UNCHANGED dvars

WidthVisualize ==
    /\ \E w \in MaxWidths : visualize(w)
    /\ UNCHANGED dvars

WidthNext ==
    \/ WidthCreateRoot
    \/ WidthAddChild
    \/ WidthVisualize

WidthSpec == Init /\ [][WidthNext]_vars

\* ======================================================================
\* The tree under its mutating operations alone: the step properties of
\* create_root, add_child, update_score and prune_low_scoring do not depend
\* on which queries are made in between, since the queries leave the tree
\* as it is.
\* ======================================================================
MutNext ==
    \/ CreateRoot
    \/ AddChild
    \/ UpdateScore
    \/ PruneLowScoring

MutSpec == Init /\ [][MutNext]_vars

\* ======================================================================
\* Properties
\* ======================================================================
Parentless == {n \in DOMAIN nodes : nodes[n].parent_id = None}
Childless(n) == nodes[n].children_ids = <<>>
Occurrences(seq, x) == Cardinality({i \in DOMAIN seq : seq[i] = x})
FailedAddChild == op = "add_child" /\ raised /= NoError

\* C1: the tree is empty, or exactly one node has no parent and that node
\* is the one root_id refers to.
C1_SingleRoot ==
    \/ DOMAIN nodes = {} /\ root_id = None
    \/ Parentless = {root_id}

\* C2: create_root on a tree that already has a root fails and leaves the
\* mapping and the root reference unchanged; on a tree without a root it
\* stores a node at depth 0 in state Completed.
C2_CreateRootOnce ==
    [][op' = "create_root" =>
         IF root_id /= None
         THEN raised' /= NoError /\ nodes' = nodes /\ root_id' = root_id
         ELSE /\ raised' = NoError
              /\ root_id' \in DOMAIN nodes'
              /\ nodes'[root_id'].depth = 0
              /\ nodes'[root_id'].state = COMPLETED]_vars

\* C3: every node other than the root has its parent in the mapping, has
\* depth parent.depth + 1, and occurs exactly once in its parent's children
\* list and in no other node's children list.
C3_ParentChildLinks ==
    \A n \in DOMAIN nodes : n /= root_id =>
        /\ nodes[n].parent_id \in DOMAIN nodes
        /\ nodes[n].depth = nodes[nodes[n].parent_id].depth + 1
        /\ Occurrences(nodes[nodes[n].parent_id].children_ids, n) = 1
        /\ \A m \in DOMAIN nodes : m /= nodes[n].parent_id =>
               Occurrences(nodes[m].children_ids, n) = 0

\* C4: no node has more than max_branches children.
C4_BranchLimit ==
    \A n \in DOMAIN nodes : Len(nodes[n].children_ids) <= max_branches

C4_Witness ==
    /\ max_branches = MaxBranchesCfg
    /\ \E n \in DOMAIN nodes : Len(nodes[n].children_ids) = max_branches
    /\ op = "add_child"

\* C5: no node lies deeper than max_depth.
C5_DepthLimit ==
    \A n \in DOMAIN nodes : nodes[n].depth <= max_depth

C5_Witness ==
    /\ max_depth >= 1
    /\ \E n \in DOMAIN nodes : nodes[n].depth = max_depth
    /\ op = "add_child"
    /\ raised = DepthLimitError

\* C6: add_child on a parent that already has max_branches children raises
\* the branch-limit error and leaves the mapping (node count, the parent's
\* children list) unchanged.
C6_BranchLimitFails ==
    [][(/\ op' = "add_child"
        /\ arg' \in DOMAIN nodes
        /\ Len(nodes[arg'].children_ids) = max_branches)
       => /\ raised' = BranchLimitError
          /\ Cardinality(DOMAIN nodes') = Cardinality(DOMAIN nodes)
          /\ nodes'[arg'].children_ids = nodes[arg'].children_ids
          /\ nodes' = nodes]_vars

C6_Witness ==
    /\ op = "add_child"
    /\ raised = BranchLimitError
    /\ max_branches >= 1
    /\ Len(nodes[arg].children_ids) = max_branches

\* C7 (as stated): add_child on a parent with depth >= max_depth always
\* raises the depth-limit error, whatever the configuration.
C7_DepthLimitAlways ==
    [][(/\ op' = "add_child"
        /\ arg' \in DOMAIN nodes
        /\ nodes[arg'].depth >= max_depth)
       => raised' = DepthLimitError]_vars

\* C7 (amended): add_child on a parent with depth >= max_depth always fails
\* and leaves the tree unchanged; it raises the depth-limit error, whose
\* message differs from the branch-limit and not-found ones, when the
\* parent has fewer than max_branches children, and the branch-limit error
\* otherwise, because the branch check comes first.
C7_DepthLimitAfterBranchCheck ==
    [][(/\ op' = "add_child"
        /\ arg' \in DOMAIN nodes
        /\ nodes[arg'].depth >= max_depth)
       => /\ UNCHANGED tree
          /\ IF Len(nodes[arg'].children_ids) < max_branches
             THEN /\ raised' = DepthLimitError
                  /\ raised'.msg \notin {BranchLimitError.msg, NotFoundError.msg}
             ELSE raised' = BranchLimitError]_vars

C7_Witness ==
    /\ op = "add_child"
    /\ raised = DepthLimitError
    /\ nodes[arg].depth = max_depth
    /\ max_branches >= 1

\* C8: an add_child that raises (absent parent, branch limit, depth limit)
\* leaves the mapping, its order and the root reference as they were.
C8_FailureLeavesTree ==
    [][(op' = "add_child" /\ raised' /= NoError)
       => (nodes' = nodes /\ order' = order /\ root_id' = root_id)]_vars

C8_Witness ==
    /\ FailedAddChild
    /\ raised = NotFoundError
    /\ Cardinality(DOMAIN nodes) >= 2

\* C9: a successful add_child(parent_id, ...) stores exactly one new node,
\* Active, at depth parent.depth + 1, appends its id at the end of the
\* parent's children list and changes nothing else.
C9_AddChildFrame ==
    [][(op' = "add_child" /\ raised' = NoError)
       => LET new == ret' IN
          /\ new \notin DOMAIN nodes
          /\ DOMAIN nodes' = DOMAIN nodes \cup {new}
          /\ arg' \in DOMAIN nodes
          /\ nodes'[new].state = ACTIVE
          /\ nodes'[new].parent_id = arg'
          /\ nodes'[new].depth = nodes[arg'].depth + 1
          /\ nodes'[new].children_ids = <<>>
          /\ nodes'[arg'] = [nodes[arg'] EXCEPT !.children_ids = Append(@, new)]
          /\ \A m \in DOMAIN nodes : m /= arg' => nodes'[m] = nodes[m]
          /\ root_id' = root_id]_vars

C9_Witness ==
    /\ op = "add_child"
    /\ raised = NoError
    /\ Len(nodes[arg].children_ids) = 2
    /\ nodes[arg].children_ids[2] = ret

\* C10: get_best_leaf returns a childless node that is not Pruned and whose
\* score is at least that of every non-pruned childless node; it returns
\* None exactly when there is no such node (empty tree, or every childless
\* node Pruned).
Eligible == {n \in DOMAIN nodes : Childless(n) /\ nodes[n].state /= PRUNED}

C10_BestLeaf ==
    op = "get_best_leaf" =>
        /\ (ret = None) <=> (Eligible = {})
        /\ ret /= None =>
              /\ ret \in Eligible
              /\ \A m \in Eligible : nodes[ret].score >= nodes[m].score

C10_Witness ==
    /\ op = "get_best_leaf"
    /\ ret /= None
    /\ nodes[ret].parent_id = root_id
    /\ \E m \in DOMAIN nodes :
          /\ nodes[m].parent_id = root_id
          /\ Childless(m)
          /\ nodes[m].state = PRUNED
          /\ nodes[m].score > nodes[ret].score

\* C11: among the non-pruned childless nodes of maximal score,
\* get_best_leaf returns the one created first, and asking again in the
\* same state gives the same node.
Pos(n) == CHOOSE i \in DOMAIN order : order[i] = n

C11_TieBreakEarliest ==
    (op = "get_best_leaf" /\ ret /= None) =>
        /\ \A m \in Eligible :
              nodes[m].score = nodes[ret].score => Pos(ret) <= Pos(m)
        /\ BestLeaf = ret

C11_Witness ==
    /\ op = "get_best_leaf"
    /\ ret /= None
    /\ \E m \in Eligible : m /= ret /\ nodes[m].score = nodes[ret].score

\* C12 (as stated): on a tree that holds only its root, get_best_leaf
\* returns the root, whatever update_score and prune_low_scoring did before.
OnlyRoot == root_id /= None /\ DOMAIN nodes = {root_id}

C12_RootOnlyReturnsRoot ==
    (op = "get_best_leaf" /\ OnlyRoot) => ret = root_id

\* C12 (amended): on a tree that holds only its root, get_best_leaf
\* returns the root unless the root has been pruned, and None once it has.
C12_RootOnlyUnlessPruned ==
    (op = "get_best_leaf" /\ OnlyRoot) =>
        ret = IF nodes[root_id].state = PRUNED THEN None ELSE root_id

C12_Witness ==
    /\ op = "get_best_leaf"
    /\ OnlyRoot
    /\ nodes[root_id].score < DefaultPruneThreshold
    /\ ret = root_id

\* C13: get_path_to_node(id) for a stored id starts at the tree's root, ends
\* at the requested node, links each element to the next as parent to
\* child and has depth + 1 elements; for an absent id it is empty.
C13_PathFromRoot ==
    op = "get_path_to_node" =>
        IF arg \in DOMAIN nodes
        THEN /\ Len(ret) = nodes[arg].depth + 1
             /\ ret[1] = root_id
             /\ ret[Len(ret)] = arg
             /\ \A i \in 1..(Len(ret) - 1) :
                   /\ nodes[ret[i + 1]].parent_id = ret[i]
                   /\ Occurrences(nodes[ret[i]].children_ids, ret[i + 1]) = 1
        ELSE ret = <<>>

\* C14: prune_low_scoring(t) leaves every node Pruned whose score is below
\* t, keeps the state of every node whose score is at least t, and changes
\* nothing but states; t defaults to the configured prune_threshold.
C14_PruneExactly ==
    [][op' = "prune_low_scoring" =>
         LET t == IF arg' = None THEN prune_threshold ELSE arg' IN
         /\ DOMAIN nodes' = DOMAIN nodes
         /\ \A n \in DOMAIN nodes :
               /\ nodes'[n].state =
                     IF nodes[n].score < t THEN PRUNED ELSE nodes[n].state
               /\ nodes'[n] = [nodes[n] EXCEPT !.state = nodes'[n].state]]_vars

C14_Witness ==
    /\ op = "prune_low_scoring"
    /\ arg = 5
    /\ \E n \in DOMAIN nodes : nodes[n].score = 5 /\ nodes[n].state /= PRUNED
    /\ \E n \in DOMAIN nodes : nodes[n].score = 1 /\ nodes[n].state = PRUNED

\* C15: right after prune_low_scoring(t), running it again with the same t
\* prunes nothing more and leaves the mapping exactly as it is.
C15_PruneIdempotent ==
    op = "prune_low_scoring" =>
        PruneAll(nodes, EffectiveThreshold(arg)) = nodes

C15_Witness ==
    /\ op = "prune_low_scoring"
    /\ arg = None
    /\ \E n \in DOMAIN nodes : nodes[n].state = PRUNED /\ nodes[n].score < prune_threshold
    /\ \E n \in DOMAIN nodes : nodes[n].state /= PRUNED

\* C16: a node that is Pruned is still in the mapping and still Pruned after
\* every step.
C16_PrunedStaysPruned ==
    [][\A n \in DOMAIN nodes :
          nodes[n].state = PRUNED =>
              n \in DOMAIN nodes' /\ nodes'[n].state = PRUNED]_vars

C16_Witness ==
    /\ op = "update_score"
    /\ arg \in DOMAIN nodes
    /\ nodes[arg].state = PRUNED
    /\ nodes[arg].score = 5
    /\ prune_threshold < 5

\* C17: no step removes a key of the mapping, and every children list after
\* a step has the list before the step as a prefix; prune_low_scoring
\* changes states only.
IsPrefix(a, b) == Len(a) <= Len(b) /\ SubSeq(b, 1, Len(a)) = a

C17_NoStructuralDeletion ==
    [][/\ DOMAIN nodes \subseteq DOMAIN nodes'
       /\ \A n \in DOMAIN nodes :
             IsPrefix(nodes[n].children_ids, nodes'[n].children_ids)
       /\ op' = "prune_low_scoring" =>
             \A n \in DOMAIN nodes :
                 nodes'[n] = [nodes[n] EXCEPT !.state = nodes'[n].state]]_vars

C17_Witness ==
    /\ op = "prune_low_scoring"
    /\ \E n \in DOMAIN nodes :
          /\ nodes[n].state = PRUNED
          /\ nodes[n].parent_id /= None
          /\ Len(nodes[nodes[n].parent_id].children_ids) = 2
          /\ nodes[nodes[n].parent_id].children_ids[2] = n

\* C18: get_leaves(exclude_pruned=True) and get_best_leaf return no Pruned
\* node, and no node on the list get_best_path returns is Pruned.
C18_NoPrunedInQueries ==
    /\ (op = "get_leaves" /\ arg = TRUE) =>
           \A i \in DOMAIN ret : nodes[ret[i]].state /= PRUNED
    /\ (op = "get_best_leaf" /\ ret /= None) => nodes[ret].state /= PRUNED
    /\ op = "get_best_path" =>
           \A i \in DOMAIN ret : nodes[ret[i]].state /= PRUNED

\* C19: in every session the generator is called at most MAX_COT_ITERATIONS
\* times, whatever the generator and the detector return, and once the loop
\* has been entered it is left (normally or by an exception of the
\* generator step).
LoopLeft == pc \in {"after_loop", "crashed"}

C19_LoopTerminates ==
    /\ [](calls <= MAX_COT_ITERATIONS)
    /\ ((pc = "think") ~> LoopLeft)

C19_Witness ==
    /\ pc = "after_loop"
    /\ calls = MAX_COT_ITERATIONS
    /\ final_answer = NoneText
    /\ session = MaxSessions

\* C20: when the detector's first final verdict comes at iteration k, the
\* session ends Finalized with the answer the detector returned at
\* iteration k, after exactly k generator calls, for every k up to
\* MAX_COT_ITERATIONS.
FirstFinal(k) ==
    /\ k \in DOMAIN detected
    /\ detected[k].is_final
    /\ \A j \in 1..(k - 1) : ~detected[j].is_final

C20_FinalizedAtK ==
    pc \in {"store", "idle"} =>
        \A k \in 1..MAX_COT_ITERATIONS :
            FirstFinal(k) =>
                /\ outcome = "Finalized"
                /\ final_answer = detected[k].answer
                /\ calls = k
                /\ Len(brain) = k

C20_Witness ==
    /\ pc = "store"
    /\ outcome = "Finalized"
    /\ FirstFinal(MAX_COT_ITERATIONS)
    /\ calls = MAX_COT_ITERATIONS

\* C21: when the detector never reports final, the session that reaches the
\* end of the loop is Exhausted after exactly MAX_COT_ITERATIONS generator
\* calls, and its fallback answer is the trailing block of the last emitted
\* thought: what follows the last blank-line separator of that thought, or
\* the whole thought when it has none.
TrailingBlock(text) ==
    LET hits == {i \in 1..(Len(text) - 1) : text[i] = NL /\ text[i + 1] = NL} IN
    IF hits = {} THEN text
    ELSE LET last == CHOOSE i \in hits : \A j \in hits : j <= i
         IN SubSeq(text, last + 2, Len(text))
NeverFinal == \A i \in DOMAIN detected : ~detected[i].is_final
C21_ExhaustedFallback ==
    (pc = "store" /\ NeverFinal) =>
        /\ outcome = "Exhausted"
        /\ calls = MAX_COT_ITERATIONS
        /\ final_answer = TrailingBlock(brain[Len(brain)])

\* side formulas of C21: the call count and the outcome alone, and the
\* fallback when no thought of the session ends or begins with a newline
C21_ExhaustedCalls ==
    (pc = "store" /\ NeverFinal) =>
        outcome = "Exhausted" /\ calls = MAX_COT_ITERATIONS
C21_FallbackCleanThoughts ==
    (pc = "store" /\ NeverFinal
       /\ \A i \in DOMAIN brain : brain[i][1] /= NL /\ brain[i][Len(brain[i])] /= NL) =>
        final_answer = TrailingBlock(brain[Len(brain)])

\* C22: a failure of the generator step never ends the session with an
\* exception: the driver is never left by a raise of think_one_step, and a
\* session's outcome is only Running, Finalized or Exhausted.
C22_GeneratorFailureNotFatal ==
    /\ pc /= "crashed"
    /\ outcome \in {"none", "Running", "Finalized", "Exhausted"}

\* C23: an update_score(id, s) step on an id of the mapping sets that node's
\* score to s and changes no other field of it, no other node, the order or
\* the root reference; on an absent id it raises nothing and leaves the tree
\* as it was.
C23_UpdateScoreFrame ==
    [][\A n \in NodeIds, s \in Scores :
          update_score(n, s) =>
              /\ raised' = NoError
              /\ order' = order
              /\ root_id' = root_id
              /\ IF n \in DOMAIN nodes
                 THEN /\ DOMAIN nodes' = DOMAIN nodes
                      /\ nodes'[n].score = s
                      /\ nodes'[n] = [nodes[n] EXCEPT !.score = s]
                      /\ \A m \in DOMAIN nodes : m /= n => nodes'[m] = nodes[m]
                 ELSE nodes' = nodes]_vars

C23_Witness ==
    /\ op = "update_score"
    /\ arg \notin DOMAIN nodes
    /\ raised = NoError
    /\ Cardinality(DOMAIN nodes) >= 2
    /\ \E n \in DOMAIN nodes : nodes[n].state = PRUNED

\* C24: get_leaves(exclude_pruned) returns, each once, exactly the nodes of
\* the mapping without children, less the Pruned ones when exclude_pruned is
\* true; with exclude_pruned false the Pruned childless nodes are returned.
ExpectedLeaves(exclude_pruned) ==
    {n \in DOMAIN nodes :
        Childless(n) /\ (exclude_pruned => nodes[n].state /= PRUNED)}
C24_LeavesExact ==
    op = "get_leaves" =>
        /\ {ret[i] : i \in DOMAIN ret} = ExpectedLeaves(arg)
        /\ Len(ret) = Cardinality(ExpectedLeaves(arg))

C24_Witness ==
    /\ op = "get_leaves"
    /\ arg = FALSE
    /\ Len(ret) = 2
    /\ nodes[ret[1]].state = PRUNED
    /\ nodes[ret[2]].state /= PRUNED
    /\ \E n \in DOMAIN nodes : ~Childless(n)

\* C25: get_stats on an empty mapping returns total_nodes = 0 and raises
\* nothing; on a non-empty one total_nodes is the number of nodes, the
\* per-state counts add up to total_nodes, leaf_nodes is the number of
\* childless nodes with the Pruned ones counted, and max_depth_reached is the
\* greatest depth of a node and is at most max_depth.
C25_Stats ==
    op = "get_stats" =>
        /\ raised = NoError
        /\ IF DOMAIN nodes = {}
           THEN ret.total_nodes = 0
           ELSE /\ ret.total_nodes = Cardinality(DOMAIN nodes)
                /\ ret.states[PENDING] + ret.states[ACTIVE]
                     + ret.states[COMPLETED] + ret.states[PRUNED] = ret.total_nodes
                /\ ret.leaf_nodes = Cardinality({n \in DOMAIN nodes : Childless(n)})
                /\ \E n \in DOMAIN nodes : nodes[n].depth = ret.max_depth_reached
                /\ \A n \in DOMAIN nodes : nodes[n].depth <= ret.max_depth_reached
                /\ ret.max_depth_reached <= max_depth

C25_Witness ==
    /\ op = "get_stats"
    /\ Cardinality(DOMAIN nodes) = 3
    /\ ret.states[PRUNED] >= 1
    /\ \E n \in DOMAIN nodes : Childless(n) /\ nodes[n].state = PRUNED
    /\ ret.leaf_nodes = 2
    /\ ret.max_depth_reached = 1
    /\ max_depth = 1

C25_WitnessEmpty ==
    /\ op = "get_stats"
    /\ DOMAIN nodes = {}
    /\ ret.total_nodes = 0

\* C26: export_chain_text returns the text "Empty tree" whenever there is no
\* path: without a node id when no best leaf exists, and with a node id that
\* is not in the mapping; otherwise its lines are the header, then the first
\* node of the path as the initial step, then each later node of the path in
\* order as Step 1, Step 2, ...
ExportedPath ==
    IF arg = None THEN BestPath ELSE PathToNode(arg)
StepLines == SelectSeq(ret, LAMBDA l : l.label \in {"Initial", "Step"})
RenderedInPathOrder(path) ==
    /\ ret[1] = ChainHeader
    /\ Len(StepLines) = Len(path)
    /\ \A i \in DOMAIN path :
          /\ StepLines[i].content = nodes[path[i]].content
          /\ IF i = 1
             THEN StepLines[i].label = "Initial"
             ELSE StepLines[i].label = "Step" /\ StepLines[i].step = i - 1
C26_ExportChain ==
    op = "export_chain_text" =>
        IF ExportedPath = <<>>
        THEN ret = EmptyTreeText
        ELSE RenderedInPathOrder(ExportedPath)

\* side formula of C26: the claim with the absent node id left out
C26_ExportChainPresent ==
    (op = "export_chain_text" /\ (arg = None \/ arg \in DOMAIN nodes)) =>
        IF ExportedPath = <<>>
        THEN ret = EmptyTreeText
        ELSE RenderedInPathOrder(ExportedPath)

\* C27: every children list is in the order in which add_child created the
\* children (ids are handed out in creation order), whatever update_score and
\* prune_low_scoring did; get_children returns the list in that order, and
\* visualize renders the children of a node in that order, after the node.
CreationOrdered(ids) ==
    \A i, j \in DOMAIN ids : i < j => ids[i] < ids[j]
LineOf(n) == CHOOSE i \in DOMAIN ret : ret[i].kind = "node" /\ ret[i].node = n
Rendered(n) == \E i \in DOMAIN ret : ret[i].kind = "node" /\ ret[i].node = n
C27_ChildrenOrder ==
    /\ \A n \in DOMAIN nodes : CreationOrdered(nodes[n].children_ids)
    /\ op = "get_children" =>
          /\ CreationOrdered(ret)
          /\ arg \in DOMAIN nodes => ret = nodes[arg].children_ids
          /\ arg \notin DOMAIN nodes => ret = <<>>
    /\ (op = "visualize" /\ root_id /= None) =>
          \A n \in DOMAIN nodes : Rendered(n) =>
              LET kids == nodes[n].children_ids IN
              \A i, j \in DOMAIN kids :
                  /\ Rendered(kids[i])
                  /\ LineOf(n) < LineOf(kids[i])
                  /\ i < j => LineOf(kids[i]) < LineOf(kids[j])

C27_Witness ==
    /\ op = "get_children"
    /\ Len(ret) = 2
    /\ nodes[ret[1]].score < nodes[ret[2]].score
    /\ nodes[ret[1]].state = PRUNED

C27_WitnessVisualize ==
    /\ op = "visualize"
    /\ root_id /= None
    /\ Len(nodes[root_id].children_ids) = 2
    /\ nodes[nodes[root_id].children_ids[1]].score
          < nodes[nodes[root_id].children_ids[2]].score
    /\ LineOf(nodes[root_id].children_ids[1]) = 5
    /\ LineOf(nodes[root_id].children_ids[2]) = 6

\* C28: the chain only changes by being emptied or by one thought being
\* appended at its end; its rendering is its entries in append order with a
\* blank line between neighbours; and the rendering handed to the generator
\* on iteration k is the rendering of the k-1 thoughts appended earlier in
\* the same session.
RECURSIVE JoinedInOrder(_)
JoinedInOrder(chain) ==
    IF Len(chain) = 0 THEN <<>>
    ELSE IF Len(chain) = 1 THEN chain[1]
    ELSE JoinedInOrder(SubSeq(chain, 1, Len(chain) - 1))
            \o <<NL, NL>> \o chain[Len(chain)]
C28_ChainRendering ==
    /\ [][\/ brain' = brain
          \/ brain' = <<>>
          \/ \E t \in Thoughts : brain' = Append(brain, t)]_vars
    /\ [](/\ brain_get_chain(brain) = JoinedInOrder(brain)
          /\ pc = "speak" =>
                /\ Len(brain) = iteration
                /\ current_cot = JoinedInOrder(SubSeq(brain, 1, iteration - 1))
          /\ pc = "crashed" =>
                /\ Len(brain) = iteration - 1
                /\ current_cot = JoinedInOrder(brain))

C28_Witness ==
    /\ pc = "speak"
    /\ session = MaxSessions
    /\ iteration = 3
    /\ brain[1] = <<"y", NL>>
    /\ brain[2] = <<"x">>
    /\ current_cot = <<"y", NL, NL, NL, "x">>

\* C29: the memory never holds more than max_exchanges exchanges, and what
\* it holds is the last min(n, max_exchanges) of the n exchanges added since
\* it was created or last cleared, in the order they were added.
Min(a, b) == IF a < b THEN a ELSE b
LastOf(seq, k) == SubSeq(seq, Len(seq) - k + 1, Len(seq))
C29_BoundedFifo ==
    /\ Len(history) <= max_exchanges
    /\ history = LastOf(added, Min(Len(added), max_exchanges))

C29_Witness ==
    /\ max_exchanges = 2
    /\ Len(added) = 4
    /\ added[1] /= added[2]
    /\ added[2] /= added[3]
    /\ added[3] /= added[4]
    /\ history = <<added[3], added[4]>>

\* C30: the store's total_exchanges is the number of add_exchange calls made
\* since it was empty or last cleared: every add_exchange, with empty strings
\* or caller metadata too, adds one entry and returns the id of that entry,
\* an id no other entry has; clear_all leaves a count of 0, and add_exchange
\* works after it.
C30_TotalExchanges ==
    /\ VectorStats.total_exchanges = vadds
    /\ op = "VectorMemory.get_stats" => ret.total_exchanges = vadds
    /\ op = "VectorMemory.clear_all" => VectorStats.total_exchanges = 0
    /\ op = "VectorMemory.add_exchange" =>
          /\ ret /= None
          /\ collection /= <<>>
          /\ collection[Len(collection)].id = ret
          /\ \A i \in 1..(Len(collection) - 1) : collection[i].id /= ret

C30_Witness ==
    /\ op = "VectorMemory.add_exchange"
    /\ next_uuid = 4
    /\ vadds = 1
    /\ collection[1].metadata.user_message = <<>>
    /\ collection[1].metadata.bot_response = <<>>
    /\ "topic" \in DOMAIN collection[1].metadata

\* C31: search_similar on an empty store returns the empty list; otherwise
\* it returns at most min(n_results, number of entries) results, each with a
\* similarity of at least min_similarity, and exactly that many when
\* min_similarity is the default 0.
C31_SearchResults ==
    op = "VectorMemory.search_similar" =>
        LET most == Min(arg.n_results, Len(collection)) IN
        /\ Len(collection) = 0 => ret = <<>>
        /\ Len(ret) <= most
        /\ \A i \in DOMAIN ret :
              ret[i].similarity[2] > 0
                 /\ ret[i].similarity[1] * 10
                       >= arg.min_similarity * ret[i].similarity[2]
        /\ arg.min_similarity = 0 => Len(ret) = most

C31_Witness ==
    /\ op = "VectorMemory.search_similar"
    /\ Len(collection) = 3
    /\ arg.n_results = 2
    /\ arg.min_similarity = 0
    /\ Len(ret) = 2
    /\ ret[1].similarity = <<1, 2>>
    /\ ret[2].similarity = <<1, 5>>

C31_WitnessFiltered ==
    /\ op = "VectorMemory.search_similar"
    /\ Len(collection) = 3
    /\ arg.n_results = 5
    /\ arg.min_similarity = 5
    /\ Len(ret) = 1
    /\ ret[1].similarity = <<1, 2>>

\* C32: every session starts in Running(1, empty chain).  Before the first
\* generator call of a session the chain is empty; the is-first-step flag
\* handed to the generator is true on iteration 1 and false afterwards; the
\* chain holds exactly the thoughts of this session's generator calls, so
\* the rendering handed to the generator and the fallback answer are built
\* from this session's thoughts only.
C32_SessionStart ==
    /\ (pc = "think" /\ iteration = 1) => (brain = <<>> /\ calls = 0)
    /\ pc = "think" => Len(brain) = iteration - 1
    /\ pc = "speak" =>
          /\ is_first_step = (iteration = 1)
          /\ Len(brain) = iteration
          /\ calls = iteration
          /\ current_cot = brain_get_chain(SubSeq(brain, 1, iteration - 1))
          /\ iteration = 1 => current_cot = brain_get_chain(<<>>)
    /\ outcome = "Exhausted" =>
          /\ Len(brain) = calls
          /\ calls = MAX_COT_ITERATIONS
          /\ final_answer = LastPiece(brain_get_chain(brain))

\* a later session is at its first speak after an earlier session left
\* thoughts behind
C32_Witness ==
    /\ session = 2
    /\ pc = "speak"
    /\ iteration = 1
    /\ is_first_step
    /\ Len(history) = 1

\* a later session has fallen back to the last thought of its own chain
C32_WitnessFallback ==
    /\ session = 2
    /\ outcome = "Exhausted"
    /\ pc = "store"

\* a handler between its chain reset and the computation of its final answer
InSession(h) == hpc[h] \in {"think", "speak", "after_loop"}

\* C33: sessions are strictly sequential in the Chainlit front end.  While a
\* handler is between its chain reset and the computation of its final
\* answer it holds the event loop, no other handler is in that stretch, and
\* the shared chain holds exactly the thoughts of that handler's iterations.
C33_SequentialSessions ==
    \A h \in Handlers :
        InSession(h) =>
            /\ running = h
            /\ \A g \in Handlers \ {h} : ~InSession(g)
            /\ hpc[h] = "think" => Len(brain) = hiter[h] - 1
            /\ hpc[h] \in {"speak", "after_loop"} => Len(brain) = hiter[h]

\* one handler waits at its send while the other is in its second iteration
C33_Witness ==
    \E h, g \in Handlers :
        /\ hpc[h] = "send"
        /\ hpc[g] = "speak"
        /\ hiter[g] = 2
        /\ Len(history) = 1

\* C34: node state lifecycle.  A node made by create_root starts COMPLETED,
\* a node made by add_child starts ACTIVE, and the only change of state any
\* operation makes to an existing node is to PRUNED; so every node is
\* COMPLETED (only nodes created as a root), ACTIVE or PRUNED, never PENDING.
C34_StateLifecycle ==
    /\ [](\A id \in DOMAIN nodes :
            /\ nodes[id].state \in {COMPLETED, ACTIVE, PRUNED}
            /\ nodes[id].state = COMPLETED => nodes[id].parent_id = None)
    /\ [][\A id \in DOMAIN nodes' :
            IF id \in DOMAIN nodes
            THEN nodes'[id].state /= nodes[id].state =>
                     /\ nodes'[id].state = PRUNED
                     /\ op' = "prune_low_scoring"
            ELSE nodes'[id].state =
                     IF op' = "create_root" THEN COMPLETED ELSE ACTIVE]_vars

\* a completed root with an active child and a pruned child
C34_Witness ==
    /\ root_id /= None
    /\ nodes[root_id].state = COMPLETED
    /\ \E a, b \in DOMAIN nodes :
          /\ nodes[a].parent_id = root_id
          /\ nodes[b].parent_id = root_id
          /\ nodes[a].state = ACTIVE
          /\ nodes[b].state = PRUNED

\* C35: the id, content, parent reference and depth of a node never change
\* once the node exists: every step of create_root, add_child, update_score
\* and prune_low_scoring keeps the node in the mapping and leaves these four
\* fields as they were (the queries assign nothing to the tree).
C35_IdentityFrame ==
    [][\A id \in DOMAIN nodes :
          /\ id \in DOMAIN nodes'
          /\ nodes'[id].id = nodes[id].id
          /\ nodes'[id].content = nodes[id].content
          /\ nodes'[id].parent_id = nodes[id].parent_id
          /\ nodes'[id].depth = nodes[id].depth]_vars

\* a grandchild has been pruned and a score has been updated afterwards
C35_Witness ==
    /\ op = "update_score"
    /\ \E id \in DOMAIN nodes :
          /\ nodes[id].depth = 2
          /\ nodes[id].state = PRUNED
          /\ nodes[id].parent_id /= None
          /\ nodes[id].id = id

\* C36: after any sequence of create_root, add_child and update_score calls
\* with caller-supplied scores, every node's score lies in [0, 1] (0..10 in
\* tenths).
C36_ScoreInUnitInterval ==
    \A id \in DOMAIN nodes : nodes[id].score >= 0 /\ nodes[id].score <= 10

RECURSIVE Pow(_, _)
Pow(b, e) == IF e = 0 THEN 1 ELSE b * Pow(b, e - 1)

RECURSIVE GeometricSum(_, _)
\* 1 + b + b^2 + ... + b^d
GeometricSum(b, d) == IF d = 0 THEN 1 ELSE GeometricSum(b, d - 1) + Pow(b, d)

\* C37: the limits bound the tree size: the number of nodes in the mapping
\* is at most 1 + max_branches + max_branches^2 + ... + max_branches^max_depth.
C37_TreeSizeBound ==
    Cardinality(DOMAIN nodes) <= GeometricSum(max_branches, max_depth)

\* C37 on the trees that have had one create_root only
C37_SingleRootSizeBound ==
    Cardinality({id \in DOMAIN nodes : nodes[id].parent_id = None}) <= 1
        => C37_TreeSizeBound

\* a single-rooted tree that has reached the bound, after a refused add_child
C37_SingleRootFull ==
    /\ Cardinality({id \in DOMAIN nodes : nodes[id].parent_id = None}) = 1
    /\ Cardinality(DOMAIN nodes) = 3
    /\ Cardinality(DOMAIN nodes) = GeometricSum(max_branches, max_depth)
    /\ raised /= NoError

RECURSIVE TopOf(_, _)
\* the parentless node the parent links lead to from id, None when the walk
\* does not end within fuel steps
TopOf(id, fuel) ==
    IF nodes[id].parent_id = None THEN id
    ELSE IF fuel = 0 \/ nodes[id].parent_id \notin DOMAIN nodes THEN None
    ELSE TopOf(nodes[id].parent_id, fuel - 1)

ListedByParent(id) ==
    nodes[id].parent_id /= None =>
        /\ nodes[id].parent_id \in DOMAIN nodes
        /\ Occurrences(nodes[nodes[id].parent_id].children_ids, id) = 1

NodeLines == SelectSeq(ret, LAMBDA l : l.kind = "node")

\* the links are consistent and free of cycles: every child is listed once
\* by its parent and every parent walk ends at a parentless node
C38_LinksAcyclic ==
    \A id \in DOMAIN nodes :
        /\ ListedByParent(id)
        /\ TopOf(id, Cardinality(DOMAIN nodes)) /= None

\* C38: every node of the mapping is reachable from root_id along children
\* lists and the links have no cycle; so visualize renders every node of the
\* mapping exactly once and the node count of its footer is the number of
\* rendered node lines.
C38_AllNodesReachable ==
    /\ C38_LinksAcyclic
    /\ \A id \in DOMAIN nodes : TopOf(id, Cardinality(DOMAIN nodes)) = root_id
    /\ (op = "visualize" /\ root_id /= None) =>
          /\ \A id \in DOMAIN nodes :
                Cardinality({i \in DOMAIN ret :
                                ret[i].kind = "node" /\ ret[i].node = id}) = 1
          /\ ret[Len(ret) - 1].kind = "footer"
          /\ ret[Len(ret) - 1].total_nodes = Len(NodeLines)

\* C38 on the trees that have had one create_root only
C38_SingleRootReachable ==
    Cardinality(Parentless) <= 1 => C38_AllNodesReachable

\* a single-rooted tree of three nodes in two levels has been rendered
C38_SingleRootRendered ==
    /\ op = "visualize"
    /\ Cardinality(Parentless) = 1
    /\ Len(NodeLines) = 3
    /\ \E id \in DOMAIN nodes : nodes[id].depth = 2

\* the part of C39 about the sessions that reach an outcome: between the
\* start of a session and its store step nothing is written, the write is
\* made by the store step after the outcome is known, and it appends the
\* outcome answer
C39_WriteAfterOutcome ==
    /\ [](pc = "idle" => Len(added) = session)
    /\ [](pc \in {"think", "speak", "after_loop", "store"} =>
             Len(added) = session - 1)
    /\ [][added' /= added =>
             /\ pc = "store"
             /\ outcome \in {"Finalized", "Exhausted"}
             /\ \E u \in Inputs : added' = Append(added, <<u, final_answer>>)
             /\ outcome = "Finalized" => final_answer = detected[Len(detected)].answer
             /\ outcome = "Exhausted" =>
                    final_answer = LastPiece(brain_get_chain(brain))]_vars

\* C39: every session that runs the driver appends exactly one
\* (user input, answer) exchange to the conversation memory, after the
\* session's answer has been determined: no write happens during the
\* iterations and the stored answer is the outcome answer.
C39_OneExchangePerSession ==
    /\ C39_WriteAfterOutcome
    /\ [](pc = "crashed" => Len(added) = session)

\* two sessions have stored their exchanges, the second one a fallback answer
C39_TwoStored ==
    /\ pc = "idle"
    /\ session = 2
    /\ Len(added) = 2
    /\ outcome = "Exhausted"

TruncationMarker == <<".", ".", ".">>

\* the width left for the content of a rendered node line
AvailableWidth(l) == arg - 4 * Len(l.prefix) - 20

Truncated(l) ==
    LET text == ContentText(nodes[l.node].content)
        available == AvailableWidth(l)
    IN /\ Len(l.content) <= available
       /\ Len(text) <= available => l.content = text
       /\ Len(text) > available =>
             \E k \in 0..Len(text) :
                 l.content = SubSeq(text, 1, k) \o TruncationMarker

\* C40: in visualize(max_width) the content of every node line is never
\* longer than max_width - len(prefix) - 20; it is the content itself when
\* that fits and otherwise a prefix of the content followed by "...", for
\* every max_width and every depth.
C40_TruncateToWidth ==
    (op = "visualize" /\ root_id /= None) =>
        \A i \in DOMAIN NodeLines : Truncated(NodeLines[i])

\* C40 on the node lines that are left three characters or more
C40_TruncateFromThree ==
    (op = "visualize" /\ root_id /= None) =>
        \A i \in DOMAIN NodeLines :
            AvailableWidth(NodeLines[i]) >= 3 => Truncated(NodeLines[i])

\* a long content has been cut to the five characters left for it and the
\* same content fits one level up
C40_CutToFit ==
    /\ op = "visualize"
    /\ root_id /= None
    /\ \E i, j \in DOMAIN NodeLines :
          /\ AvailableWidth(NodeLines[i]) = 4
          /\ NodeLines[i].content = <<"a">> \o TruncationMarker
          /\ AvailableWidth(NodeLines[j]) = 8
          /\ NodeLines[j].content = ContentText("abcdefgh")

====
